---- MODULE Spec2Model ----
(***************************************************************************)
(* The job pipeline (app/core/worker.py, process_job) and the analysis     *)
(* dispatcher (app/services/ai.py: analyse, call_gemini_api,               *)
(* get_fallback_analysis) of the yt-recommender backend.                   *)
(*                                                                         *)
(* An optional Python value (None, a missing dict key) is the empty        *)
(* sequence <<>>, a present one <<v>>.  A dict is a function whose DOMAIN  *)
(* is its key set.                                                         *)
(***************************************************************************)
EXTENDS Integers, Sequences, FiniteSets, TLC

VARIABLES
    store,        \* JobStore: job id -> Job document (mongo_client)
    api_key,      \* settings.gemini_api_key ("" when not configured)
    pc,           \* per task: position of process_job
    arg,          \* per task: the job_id argument
    job,          \* per task: local `job`
    channel_id,   \* per task: local `channel_id`
    videos,       \* per task: local `videos`
    report,       \* per task: local `report`
    exc,          \* per task: str(e) of the exception being handled
    answer,       \* per task: what the provider answered to this task's call
    calls,        \* history: external calls made, in order
    writes,       \* history: update_job calls that were applied, in order
    outbox,       \* emails handed to the SMTP transport
    out,          \* a direct call of the dispatcher: its arguments and result
    plan          \* the surroundings of the first run: what the caller does
                  \* besides it, and how varied the collaborators' answers are

vars == <<store, api_key, pc, arg, job, channel_id, videos, report, exc, answer,
          calls, writes, outbox, out, plan>>

pipeVars == <<store, api_key, pc, arg, job, channel_id, videos, report, exc, answer,
              calls, writes, outbox, plan>>

-----------------------------------------------------------------------------
(* Bounds *)

MaxVideos == 4
MaxFetched == 2
MaxServices == 2
MaxInsights == 4

(* Program constants *)

VideoSlice == 3
InsightSlice == 3

-----------------------------------------------------------------------------
(* Values *)

None == <<>>
Some(v) == <<v>>
IsSome(o) == Len(o) = 1
Get(o) == o[1]

Range(s) == {s[i] : i \in 1..Len(s)}
Take(s, n) == SubSeq(s, 1, IF Len(s) < n THEN Len(s) ELSE n)

EmptyDict == [k \in {} |-> ""]
Put(d, k, v) == [x \in DOMAIN d \cup {k} |-> IF x = k THEN v ELSE d[x]]

KnownIds == {"1", "2", "3", "7", "8", "10"}
UnknownIds == {"99"}
AllIds == KnownIds \cup UnknownIds
IdOrder == <<"1", "2", "3", "7", "8", "10", "99">>

SERVICE_MAP ==
    [id \in KnownIds |->
        CASE id = "1" -> "semantic_title_engine"
          [] id = "2" -> "predictive_ctr_analysis"
          [] id = "3" -> "multi_platform_mastery"
          [] id = "7" -> "copyright_protection"
          [] id = "8" -> "fair_use_analysis"
          [] id = "10" -> "trend_intelligence"]

CapabilityNames == {SERVICE_MAP[id] : id \in KnownIds}

\* The capability names the spec's table gives to the requested ids.
RequestedNames(services) ==
    {SERVICE_MAP[id] : id \in Range(services) \cap KnownIds}

(* ContentItem: a dict with an optional title (a missing key is None). *)
Titles == {"Title A"}
ContentItems == [title : {None} \cup {Some(t) : t \in Titles}]

SeqsUpTo(S, n) == UNION {[1..k -> S] : k \in 0..n}

VideoLists == SeqsUpTo(ContentItems, MaxVideos)
FetchedLists == SeqsUpTo(ContentItems, MaxFetched)

\* The list holding the ids of S once each, in the order of IdOrder.
ListOf(S) == SelectSeq(IdOrder, LAMBDA id : id \in S)

\* The ids of the spec's scenarios: two known ones and an unknown one.
SampleIds == {"1", "7", "99"}

\* The short lists over the sample ids, in any order and with repetitions.
JobServiceLists == SeqsUpTo(SampleIds, MaxServices)

\* Every subset of the ids as a list, plus the short lists.
ServiceLists == {ListOf(S) : S \in SUBSET AllIds} \cup JobServiceLists

\* The services argument: None or a list of ids.
ServiceArgs == {None} \cup {Some(s) : s \in ServiceLists}
JobServiceArgs == {None} \cup {Some(s) : s \in JobServiceLists}

-----------------------------------------------------------------------------
(* ai.py: the analysis dispatcher *)

\* `services or []`
OrEmpty(services) == IF IsSome(services) THEN Get(services) ELSE <<>>

\* The email_summary dict literal of get_fallback_analysis.
FallbackSummary ==
    [kind |-> "dict",
     headline |-> "Your channel has untapped growth potential",
     teaser |-> "We reviewed your recent videos and identified title, CTR, and visibility gaps that are quietly limiting reach.",
     key_insights |-> <<"Your titles explain content but don't maximize curiosity",
                        "Click-through rate signals are below platform benchmarks",
                        "You're missing short-window trends relevant to your niche">>,
     cta |-> "Open your full AI report to see what to fix first"]

\* videos[:3] if len(videos) > 3 else videos
VideosToAnalyze(vs) == IF Len(vs) > VideoSlice THEN SubSeq(vs, 1, VideoSlice) ELSE vs

\* videos_to_analyze[0].get("title", "Video 1") if videos_to_analyze else "Video 1"
OriginalTitle(vs) ==
    IF VideosToAnalyze(vs) /= <<>>
    THEN IF IsSome(VideosToAnalyze(vs)[1].title)
         THEN Get(VideosToAnalyze(vs)[1].title)
         ELSE "Video 1"
    ELSE "Video 1"

\* One `if "<id>" in services: result["services"][<name>] = {...}` block.  The
\* canned payload is the same for every input, except the title engine's,
\* which quotes the first video's title.
FallbackBlock(d, services, id, name, payload) ==
    IF id \in Range(services) THEN Put(d, name, payload) ELSE d

\* FallbackServices with the fair-use block stored under the key of the
\* block above it.
FallbackServicesCopyPaste(vs, services) ==
    LET d1 == FallbackBlock(EmptyDict, services, "1", "semantic_title_engine", OriginalTitle(vs))
        d2 == FallbackBlock(d1, services, "2", "predictive_ctr_analysis", "canned")
        d3 == FallbackBlock(d2, services, "3", "multi_platform_mastery", "canned")
        d4 == FallbackBlock(d3, services, "7", "copyright_protection", "canned")
        d5 == FallbackBlock(d4, services, "8", "copyright_protection", "canned")
        d6 == FallbackBlock(d5, services, "10", "trend_intelligence", "canned")
    IN  d6

\* FallbackServices written as a loop over the requested ids that stores an
\* id the table does not hold under the id itself.
FallbackServicesKeepsUnknown(vs, services) ==
    LET d1 == FallbackBlock(EmptyDict, services, "1", "semantic_title_engine", OriginalTitle(vs))
        d2 == FallbackBlock(d1, services, "2", "predictive_ctr_analysis", "canned")
        d3 == FallbackBlock(d2, services, "3", "multi_platform_mastery", "canned")
        d4 == FallbackBlock(d3, services, "7", "copyright_protection", "canned")
        d5 == FallbackBlock(d4, services, "8", "fair_use_analysis", "canned")
        d6 == FallbackBlock(d5, services, "10", "trend_intelligence", "canned")
    IN  [n \in DOMAIN d6 \cup (Range(services) \ KnownIds) |->
            IF n \in DOMAIN d6 THEN d6[n] ELSE "canned"]

FallbackServices(vs, services) ==
    LET d1 == FallbackBlock(EmptyDict, services, "1", "semantic_title_engine", OriginalTitle(vs))
        d2 == FallbackBlock(d1, services, "2", "predictive_ctr_analysis", "canned")
        d3 == FallbackBlock(d2, services, "3", "multi_platform_mastery", "canned")
        d4 == FallbackBlock(d3, services, "7", "copyright_protection", "canned")
        d5 == FallbackBlock(d4, services, "8", "fair_use_analysis", "canned")
        d6 == FallbackBlock(d5, services, "10", "trend_intelligence", "canned")
    IN  d6

get_fallback_analysis(vs, services) ==
    [shape |-> "dict",
     email_summary |-> Some(FallbackSummary),
     services |-> Some(FallbackServices(vs, OrEmpty(services)))]

(* build_service_instructions: the prompt text as its pieces, the header    *)
(* and one piece per instruction text (each followed by a blank line).     *)

InstructionsHeader == "PERFORM THE FOLLOWING ANALYSES:"
GeneralOverview == "Provide a general channel overview and basic recommendations."

service_prompts ==
    [id \in KnownIds |->
        CASE id = "1" -> "1. SEMANTIC TITLE ENGINE"
          [] id = "2" -> "2. PREDICTIVE CTR ANALYSIS"
          [] id = "3" -> "3. MULTI-PLATFORM MASTERY"
          [] id = "7" -> "4. COPYRIGHT PROTECTION"
          [] id = "8" -> "5. FAIR USE ANALYSIS"
          [] id = "10" -> "6. TREND INTELLIGENCE"]

RECURSIVE AddInstructions(_, _)
\* for service_id in services: if service_id in service_prompts: instructions += ...
AddInstructions(instructions, services) ==
    IF services = <<>> THEN instructions
    ELSE AddInstructions(
            IF Head(services) \in DOMAIN service_prompts
            THEN Append(instructions, service_prompts[Head(services)])
            ELSE instructions,
            Tail(services))

\* instructions.strip().endswith("ANALYSES:"): the text ends with the header
EndsWithHeader(instructions) == instructions[Len(instructions)] = InstructionsHeader

\* build_service_instructions going through the table of instruction texts
\* and taking those whose id was requested, as the fallback generator does.
build_service_instructionsTableOrder(services) ==
    LET instructions ==
            AddInstructions(<<InstructionsHeader>>,
                            SelectSeq(IdOrder, LAMBDA id : id \in Range(services)))
    IN  IF ~EndsWithHeader(instructions) THEN instructions ELSE <<GeneralOverview>>

build_service_instructions(services) ==
    LET instructions == AddInstructions(<<InstructionsHeader>>, services)
    IN  IF ~EndsWithHeader(instructions) THEN instructions ELSE <<GeneralOverview>>

(* What the generative provider can answer.  A JSON document is the Python  *)
(* value json.loads gives for it: a dict with the keys it holds, or a value *)
(* that is no dict.                                                         *)

\* The key sets of the "services" dict of the provider's documents: any of the
\* sample capabilities and a service that does not exist.
DocKeySets ==
    SUBSET ({SERVICE_MAP[id] : id \in SampleIds \cap KnownIds} \cup {"hallucinated_service"})

Insights(n) == [i \in 1..n |-> "insight " \o ToString(i)]

Summary(h, t, ki, c) ==
    [kind |-> "dict", headline |-> h, teaser |-> t, key_insights |-> ki, cta |-> c]

\* A JSON string where the email_summary dict is expected.
StrSummary == [kind |-> "str", headline |-> "", teaser |-> "", key_insights |-> <<>>, cta |-> ""]

\* Every email_summary dict: each field empty (or missing) or not.
EmailSummaries ==
    {Summary(h, t, Insights(n), c) :
        h \in {"", "headline"}, t \in {"", "teaser"}, n \in 0..MaxInsights, c \in {"", "cta"}}

\* The email_summary values of the provider's documents: a full one, an
\* empty one, and one of the wrong JSON type.
ProviderSummaries ==
    {Summary("headline", "teaser", Insights(MaxInsights), "cta"),
     Summary("", "", <<>>, ""),
     StrSummary}

NonDict(shape) == [shape |-> shape, email_summary |-> None, services |-> None]

ProviderDocs ==
    [shape : {"dict"},
     email_summary : {None} \cup {Some(e) : e \in ProviderSummaries},
     services : {None} \cup {Some([n \in K |-> "llm"]) : K \in DocKeySets}]
    \cup {NonDict("list"), NonDict("null")}

\* response.text as the pieces the cleaning and the parser tell apart:
\*   fence_json_nl  ```json followed by a newline     fence_nl  ``` and a newline
\*   fence_json     ```json followed by other text    fence     ``` alone
\*   nl, sp         white space                       prose     any other text
\*   json           one JSON document
Tok(k) == [k |-> k, doc |-> NonDict("null")]
JsonTok(d) == [k |-> "json", doc |-> d]

\* The texts the provider can wrap one document in, and texts holding none.
TextsOf(d) ==
    { <<JsonTok(d)>>,
      <<Tok("fence_json_nl"), JsonTok(d), Tok("nl"), Tok("fence")>>,
      <<Tok("fence_nl"), JsonTok(d), Tok("nl"), Tok("fence")>>,
      <<Tok("fence_json"), Tok("sp"), JsonTok(d), Tok("fence")>>,
      <<Tok("prose"), JsonTok(d)>> }

BadTexts == { <<>>, <<Tok("prose")>>, <<Tok("fence_json_nl"), Tok("fence")>> }

\* What one provider call does: raise (any Exception out of lines 45-298),
\* answer without text (response.text is None), or answer a text.
ProviderOutcomes ==
    {[kind |-> "raise", text |-> <<>>], [kind |-> "no_text", text |-> <<>>]}
    \cup {[kind |-> "text", text |-> t] : t \in BadTexts \cup UNION {TextsOf(d) : d \in ProviderDocs}}

\* No provider call was made.
NoOutcome == [kind |-> "none", text |-> <<>>]

RECURSIVE Remove(_, _)
\* str.replace(piece, ''): every occurrence of the piece is dropped.  The piece
\* "fence" also matches the head of "fence_json", whose rest stays as text.
Remove(text, piece) ==
    IF text = <<>> THEN <<>>
    ELSE IF Head(text).k = piece THEN Remove(Tail(text), piece)
    ELSE IF piece = "fence" /\ Head(text).k = "fence_json"
         THEN <<Tok("prose")>> \o Remove(Tail(text), piece)
    ELSE <<Head(text)>> \o Remove(Tail(text), piece)

IsSpace(tok) == tok.k \in {"sp", "nl"}

RECURSIVE LStrip(_)
LStrip(text) ==
    IF text /= <<>> /\ IsSpace(Head(text)) THEN LStrip(Tail(text)) ELSE text

RECURSIVE RStrip(_)
RStrip(text) ==
    IF text /= <<>> /\ IsSpace(text[Len(text)])
    THEN RStrip(SubSeq(text, 1, Len(text) - 1))
    ELSE text

\* cleaned_response: the three replace calls in their order, then strip().
CleanResponse(text) ==
    LStrip(RStrip(Remove(Remove(Remove(text, "fence_json_nl"), "fence_nl"), "fence")))

\* json.loads: one JSON document, or JSONDecodeError.
json_loads(text) ==
    IF Len(text) = 1 /\ text[1].k = "json"
    THEN [raised |-> FALSE, value |-> text[1].doc]
    ELSE [raised |-> TRUE, value |-> NonDict("null")]

\* call_gemini_api: the provider call, then the cleaning and the parse; a
\* JSONDecodeError is handled here, every other exception propagates.
call_gemini_api(vs, services, outcome) ==
    IF outcome.kind \in {"raise", "no_text"}
    THEN [raised |-> TRUE, value |-> NonDict("null")]
    ELSE LET parsed == json_loads(CleanResponse(outcome.text))
         IN  IF parsed.raised
             THEN [raised |-> FALSE, value |-> get_fallback_analysis(vs, services)]
             ELSE [raised |-> FALSE, value |-> parsed.value]

\* analyse without the try/except around the provider call.
analyseNoCatch(vs, services, key, outcome) ==
    IF key = ""
    THEN [raised |-> FALSE, value |-> get_fallback_analysis(vs, services)]
    ELSE call_gemini_api(vs, services, outcome)

\* analyse(videos, services=services) with settings.gemini_api_key = key.
analyse(vs, services, key, outcome) ==
    IF key = ""
    THEN [raised |-> FALSE, value |-> get_fallback_analysis(vs, services)]
    ELSE LET r == call_gemini_api(vs, services, outcome)
         IN  IF r.raised
             THEN [raised |-> FALSE, value |-> get_fallback_analysis(vs, services)]
             ELSE r

-----------------------------------------------------------------------------
(* worker.py: building the notification body (lines 55-81) *)

Preamble == "Your AI analysis report is ready"

Bullets(items) == [i \in 1..Len(items) |-> "- " \o items[i]]

\* EmailBody without the [:3] slice: every key insight gets its line.
EmailBodyAllInsights(rep) ==
    LET es == IF rep.shape = "dict" /\ IsSome(rep.email_summary)
              THEN rep.email_summary ELSE None
    IN  IF es = None THEN [raised |-> FALSE, body |-> <<Preamble>>]
        ELSE IF Get(es).kind /= "dict" THEN [raised |-> TRUE, body |-> <<>>]
        ELSE LET e == Get(es)
             IN [raised |-> FALSE,
                 body |-> <<Preamble>>
                    \o (IF e.headline /= "" THEN <<e.headline>> ELSE <<>>)
                    \o (IF e.teaser /= "" THEN <<e.teaser>> ELSE <<>>)
                    \o (IF e.key_insights /= <<>>
                        THEN <<"Key insights:">> \o Bullets(e.key_insights)
                        ELSE <<>>)
                    \o (IF e.cta /= "" THEN <<e.cta>> ELSE <<>>)]

\* The pieces appended to email_body, in order; raised when the code raises
\* while building (email_summary is truthy and no dict).
EmailBody(rep) ==
    LET es == IF rep.shape = "dict" /\ IsSome(rep.email_summary)
              THEN rep.email_summary ELSE None
    IN  IF es = None THEN [raised |-> FALSE, body |-> <<Preamble>>]
        ELSE IF Get(es).kind /= "dict" THEN [raised |-> TRUE, body |-> <<>>]
        ELSE LET e == Get(es)
             IN [raised |-> FALSE,
                 body |-> <<Preamble>>
                    \o (IF e.headline /= "" THEN <<e.headline>> ELSE <<>>)
                    \o (IF e.teaser /= "" THEN <<e.teaser>> ELSE <<>>)
                    \o (IF e.key_insights /= <<>>
                        THEN <<"Key insights:">> \o Bullets(Take(e.key_insights, InsightSlice))
                        ELSE <<>>)
                    \o (IF e.cta /= "" THEN <<e.cta>> ELSE <<>>)]

-----------------------------------------------------------------------------
(* JobStore (app.services.mongo_client) *)

JobId == "job-1"
MissingId == "job-2"
Tasks == {"run1", "run2"}

NewJob(services) ==
    [channel_name |-> "AcmeChannel", email |-> "creator@example.com",
     services |-> services, status |-> "pending", channel_id |-> None,
     videos |-> None, ai_report |-> None, error |-> None, updated_at |-> None]

\* get_job(job_id): the document, or None
get_job(id) == IF id \in DOMAIN store THEN Some(store[id]) ELSE None

\* update_job(job_id, fields): merge the fields into the document and refresh
\* updated_at; no document, no change.
update_job(st, id, fields, now) ==
    IF id \in DOMAIN st
    THEN [st EXCEPT ![id] =
            [f \in DOMAIN @ |->
                IF f \in DOMAIN fields THEN fields[f]
                ELSE IF f = "updated_at" THEN Some(now) ELSE @[f]]]
    ELSE st

StoreError == "store unavailable"
ResolveErrors == {"Channel not found"}
FetchErrors == {"No videos found"}
ChannelIds == {"UC123"}

-----------------------------------------------------------------------------
(* worker.py: process_job, one action per suspension point *)

Goto(t, label) == pc' = [pc EXCEPT ![t] = label]
Called(t, fn, ok) == calls' = Append(calls, [task |-> t, fn |-> fn, ok |-> ok])

\* An applied update_job call of task t; `from` is the status it found.
Write(t, fields) ==
    /\ store' = update_job(store, arg[t], fields, Len(writes) + 1)
    /\ writes' = Append(writes, [task |-> t, keys |-> DOMAIN fields,
                                 status |-> fields.status,
                                 from |-> store[arg[t]].status])

(* The surroundings of process_job.  `second` says whether and when the     *)
(* caller calls process_job a second time on the same job id, `updates` how *)
(* often it changes the job's services while the pipeline runs, `answers`   *)
(* whether the collaborators answer with any of their values or with few.   *)
OneRun == [second |-> "never", updates |-> 0, answers |-> "any"]
OneRunFew == [second |-> "never", updates |-> 0, answers |-> "few"]
Rerun == [second |-> "after", updates |-> 0, answers |-> "few"]
Concurrent == [second |-> "with", updates |-> 0, answers |-> "few"]
Updating == [second |-> "never", updates |-> 1, answers |-> "few"]

\* The few answers: at most one video, and a provider that raises or answers
\* one bare document.
FewFetched == {vs \in FetchedLists : Len(vs) <= 1}
FewOutcomes ==
    {[kind |-> "raise", text |-> <<>>],
     [kind |-> "text",
      text |-> <<JsonTok([shape |-> "dict",
                          email_summary |-> Some(Summary("headline", "teaser", <<>>, "cta")),
                          services |-> Some([n \in {"semantic_title_engine"} |-> "llm"])])>>]}
FewServices == {None, Some(<<"1">>), Some(<<"7">>)}

FetchedFor == IF plan.answers = "any" THEN FetchedLists ELSE FewFetched

\* except Exception as e: (lines 27, 35, 49)
Except(t, msg) ==
    /\ exc' = [exc EXCEPT ![t] = msg]
    /\ Goto(t, "fail_write")

\* GetJob without the `if not job: return`: the run goes on to stage 1 with
\* whatever get_job returned.
GetJobNoCheck(t) ==
    /\ pc[t] = "get_job"
    /\ \/ /\ job' = [job EXCEPT ![t] = get_job(arg[t])]
          /\ Goto(t, "resolve")
       \/ /\ Goto(t, "raised")
          /\ UNCHANGED job
    /\ UNCHANGED <<store, api_key, arg, channel_id, videos, report, exc, answer,
                   calls, writes, outbox, out>>

\* lines 15-17: job = await get_job(job_id); if not job: return
GetJob(t) ==
    /\ pc[t] = "get_job"
    /\ \/ /\ job' = [job EXCEPT ![t] = get_job(arg[t])]
          /\ Goto(t, IF get_job(arg[t]) = None THEN "done" ELSE "resolve")
       \/ /\ Goto(t, "raised")
          /\ UNCHANGED job
    /\ UNCHANGED <<store, api_key, arg, channel_id, videos, report, exc, answer,
                   calls, writes, outbox, out>>

\* line 21: channel_id = await resolve_channel(job["channel_name"])
Resolve(t) ==
    /\ pc[t] = "resolve"
    /\ \/ \E cid \in ChannelIds :
            /\ Called(t, "resolve_channel", TRUE)
            /\ channel_id' = [channel_id EXCEPT ![t] = Some(cid)]
            /\ Goto(t, "write_resolved")
            /\ UNCHANGED exc
       \/ \E msg \in ResolveErrors :
            /\ Called(t, "resolve_channel", FALSE)
            /\ Except(t, msg)
            /\ UNCHANGED channel_id
    /\ UNCHANGED <<store, api_key, arg, job, videos, report, answer, writes,
                   outbox, out>>

\* WriteResolved with the channel id left out of the update.
WriteResolvedNoChannel(t) ==
    /\ pc[t] = "write_resolved"
    /\ \/ /\ Write(t, [status |-> "channel_resolved",
                        updated_at |-> Some(Len(writes) + 1)])
          /\ Goto(t, "fetch")
          /\ UNCHANGED exc
       \/ /\ Except(t, StoreError)
          /\ UNCHANGED <<store, writes>>
    /\ UNCHANGED <<api_key, arg, job, channel_id, videos, report, answer, calls,
                   outbox, out>>

\* WriteResolved guarded against a second run: the update is made only on a
\* Job that is still pending, and otherwise the run returns.
WriteResolvedGuarded(t) ==
    /\ pc[t] = "write_resolved"
    /\ \/ /\ store[arg[t]].status = "pending"
          /\ Write(t, [channel_id |-> channel_id[t], status |-> "channel_resolved",
                        updated_at |-> Some(Len(writes) + 1)])
          /\ Goto(t, "fetch")
          /\ UNCHANGED exc
       \/ /\ store[arg[t]].status /= "pending"
          /\ Goto(t, "done")
          /\ UNCHANGED <<store, writes, exc>>
       \/ /\ Except(t, StoreError)
          /\ UNCHANGED <<store, writes>>
    /\ UNCHANGED <<api_key, arg, job, channel_id, videos, report, answer, calls,
                   outbox, out>>

\* WriteResolved with the update not awaited: the run goes on to stage 2
\* whether or not the store applied it.
WriteResolvedNotAwaited(t) ==
    /\ pc[t] = "write_resolved"
    /\ \/ Write(t, [channel_id |-> channel_id[t], status |-> "channel_resolved",
                     updated_at |-> Some(Len(writes) + 1)])
       \/ UNCHANGED <<store, writes>>
    /\ Goto(t, "fetch")
    /\ UNCHANGED <<api_key, arg, job, channel_id, videos, report, exc, answer,
                   calls, outbox, out>>

\* lines 22-26: await update_job(job_id, {channel_id, status, updated_at})
WriteResolved(t) ==
    /\ pc[t] = "write_resolved"
    /\ \/ /\ Write(t, [channel_id |-> channel_id[t], status |-> "channel_resolved",
                        updated_at |-> Some(Len(writes) + 1)])
          /\ Goto(t, "fetch")
          /\ UNCHANGED exc
       \/ /\ Except(t, StoreError)
          /\ UNCHANGED <<store, writes>>
    /\ UNCHANGED <<api_key, arg, job, channel_id, videos, report, answer, calls,
                   outbox, out>>

\* FailWrite with the error message left out of the failure write.
FailWriteNoError(t) ==
    /\ pc[t] = "fail_write"
    /\ \/ /\ Write(t, [status |-> "failed"])
          /\ Goto(t, "done")
       \/ /\ Goto(t, "raised")
          /\ UNCHANGED <<store, writes>>
    /\ UNCHANGED <<api_key, arg, job, channel_id, videos, report, exc, answer,
                   calls, outbox, out>>

\* FailWrite putting the Job back to what it was before the stages: the
\* failure update also clears channel_id and videos.
FailWriteResetsJob(t) ==
    /\ pc[t] = "fail_write"
    /\ \/ /\ Write(t, [status |-> "failed", error |-> Some(exc[t]),
                        channel_id |-> None, videos |-> None])
          /\ Goto(t, "done")
       \/ /\ Goto(t, "raised")
          /\ UNCHANGED <<store, writes>>
    /\ UNCHANGED <<api_key, arg, job, channel_id, videos, report, exc, answer,
                   calls, outbox, out>>

\* FailWrite recording the error without the status.
FailWriteKeepsStatus(t) ==
    /\ pc[t] = "fail_write"
    /\ \/ /\ Write(t, [status |-> store[arg[t]].status, error |-> Some(exc[t])])
          /\ Goto(t, "done")
       \/ /\ Goto(t, "raised")
          /\ UNCHANGED <<store, writes>>
    /\ UNCHANGED <<api_key, arg, job, channel_id, videos, report, exc, answer,
                   calls, outbox, out>>

\* FailWrite with a failure of the failure update swallowed: process_job
\* returns as if the update had been applied.
FailWriteSwallowed(t) ==
    /\ pc[t] = "fail_write"
    /\ \/ Write(t, [status |-> "failed", error |-> Some(exc[t])])
       \/ UNCHANGED <<store, writes>>
    /\ Goto(t, "done")
    /\ UNCHANGED <<api_key, arg, job, channel_id, videos, report, exc, answer,
                   calls, outbox, out>>

\* lines 28-29, 36-37, 50-51:
\* await update_job(job_id, {"status": "failed", "error": str(e)}); return
FailWrite(t) ==
    /\ pc[t] = "fail_write"
    /\ \/ /\ Write(t, [status |-> "failed", error |-> Some(exc[t])])
          /\ Goto(t, "done")
       \/ /\ Goto(t, "raised")
          /\ UNCHANGED <<store, writes>>
    /\ UNCHANGED <<api_key, arg, job, channel_id, videos, report, exc, answer,
                   calls, outbox, out>>

\* line 33: videos = await fetch_latest_videos(channel_id)
Fetch(t) ==
    /\ pc[t] = "fetch"
    /\ \/ \E vs \in FetchedFor :
            /\ Called(t, "fetch_latest_videos", TRUE)
            /\ videos' = [videos EXCEPT ![t] = Some(vs)]
            /\ Goto(t, "write_videos")
            /\ UNCHANGED exc
       \/ \E msg \in FetchErrors :
            /\ Called(t, "fetch_latest_videos", FALSE)
            /\ Except(t, msg)
            /\ UNCHANGED videos
    /\ UNCHANGED <<store, api_key, arg, job, channel_id, report, answer, writes,
                   outbox, out>>

\* WriteVideos writing the status of the stage after it.
WriteVideosWrongStatus(t) ==
    /\ pc[t] = "write_videos"
    /\ \/ /\ Write(t, [videos |-> videos[t], status |-> "completed"])
          /\ Goto(t, "analyse_get_job")
          /\ UNCHANGED exc
       \/ /\ Except(t, StoreError)
          /\ UNCHANGED <<store, writes>>
    /\ UNCHANGED <<api_key, arg, job, channel_id, videos, report, answer, calls,
                   outbox, out>>

\* WriteVideos with the videos left out of the update.
WriteVideosNoVideos(t) ==
    /\ pc[t] = "write_videos"
    /\ \/ /\ Write(t, [status |-> "videos_fetched"])
          /\ Goto(t, "analyse_get_job")
          /\ UNCHANGED exc
       \/ /\ Except(t, StoreError)
          /\ UNCHANGED <<store, writes>>
    /\ UNCHANGED <<api_key, arg, job, channel_id, videos, report, answer, calls,
                   outbox, out>>

\* line 34: await update_job(job_id, {"videos": videos, "status": "videos_fetched"})
WriteVideos(t) ==
    /\ pc[t] = "write_videos"
    /\ \/ /\ Write(t, [videos |-> videos[t], status |-> "videos_fetched"])
          /\ Goto(t, "analyse_get_job")
          /\ UNCHANGED exc
       \/ /\ Except(t, StoreError)
          /\ UNCHANGED <<store, writes>>
    /\ UNCHANGED <<api_key, arg, job, channel_id, videos, report, answer, calls,
                   outbox, out>>

\* Stage 3 going on with the Job loaded at line 15, without loading it again.
ReloadStale(t) ==
    /\ pc[t] = "analyse_get_job"
    /\ \/ /\ Goto(t, "analyse")
          /\ UNCHANGED exc
       \/ Except(t, StoreError)
    /\ UNCHANGED <<store, api_key, arg, job, channel_id, videos, report, answer,
                   calls, writes, outbox, out>>

\* Reload with a progress update of its own before the analysis: a second
\* update in stage 3.
ReloadWritesProgress(t) ==
    /\ pc[t] = "analyse_get_job"
    /\ \/ /\ Write(t, [status |-> "videos_fetched"])
          /\ job' = [job EXCEPT ![t] = Some(store'[arg[t]])]
          /\ Goto(t, "analyse")
          /\ UNCHANGED exc
       \/ /\ Except(t, StoreError)
          /\ UNCHANGED <<job, store, writes>>
    /\ UNCHANGED <<api_key, arg, channel_id, videos, report, answer, calls,
                   outbox, out>>

\* line 41: job = await get_job(job_id)
Reload(t) ==
    /\ pc[t] = "analyse_get_job"
    /\ \/ /\ job' = [job EXCEPT ![t] = get_job(arg[t])]
          /\ Goto(t, "analyse")
          /\ UNCHANGED exc
       \/ /\ Except(t, StoreError)
          /\ UNCHANGED job
    /\ UNCHANGED <<store, api_key, arg, channel_id, videos, report, answer, calls,
                   writes, outbox, out>>

\* The provider is called only with a credential configured (line 31).
OutcomesFor(key) ==
    IF key = "" THEN {NoOutcome}
    ELSE IF plan.answers = "any" THEN ProviderOutcomes ELSE FewOutcomes

\* lines 42-43: services = job.get("services", []);
\*              report = await analyse(videos, services=services)
Analyse(t) ==
    /\ pc[t] = "analyse"
    /\ IF job[t] = None
       THEN \* None has no attribute 'get'
            /\ Except(t, "'NoneType' object has no attribute 'get'")
            /\ UNCHANGED <<report, calls, answer>>
       ELSE \E outcome \in OutcomesFor(api_key) :
            LET r == analyse(Get(videos[t]), Get(job[t]).services, api_key, outcome)
            IN  /\ Called(t, "analyse", ~r.raised)
                /\ answer' = [answer EXCEPT ![t] = Some(outcome)]
                /\ IF r.raised
                   THEN /\ Except(t, "analysis failed")
                        /\ UNCHANGED report
                   ELSE /\ report' = [report EXCEPT ![t] = Some(r.value)]
                        /\ Goto(t, "write_completed")
                        /\ UNCHANGED exc
    /\ UNCHANGED <<store, api_key, arg, job, channel_id, videos, writes, outbox, out>>

\* WriteCompleted with the report left out of the update.
WriteCompletedNoReport(t) ==
    /\ pc[t] = "write_completed"
    /\ \/ /\ Write(t, [status |-> "completed"])
          /\ Goto(t, "notify")
          /\ UNCHANGED exc
       \/ /\ Except(t, StoreError)
          /\ UNCHANGED <<store, writes>>
    /\ UNCHANGED <<api_key, arg, job, channel_id, videos, report, answer, calls,
                   outbox, out>>

\* WriteCompleted storing the services the analysis worked with
\* (`services or []`) along with the report.
WriteCompletedStoresServices(t) ==
    /\ pc[t] = "write_completed"
    /\ \/ /\ Write(t, [ai_report |-> report[t], status |-> "completed",
                        services |-> Some(OrEmpty(Get(job[t]).services))])
          /\ Goto(t, "notify")
          /\ UNCHANGED exc
       \/ /\ Except(t, StoreError)
          /\ UNCHANGED <<store, writes>>
    /\ UNCHANGED <<api_key, arg, job, channel_id, videos, report, answer, calls,
                   outbox, out>>

\* lines 45-48: await update_job(job_id, {"ai_report": report, "status": "completed"})
WriteCompleted(t) ==
    /\ pc[t] = "write_completed"
    /\ \/ /\ Write(t, [ai_report |-> report[t], status |-> "completed"])
          /\ Goto(t, "notify")
          /\ UNCHANGED exc
       \/ /\ Except(t, StoreError)
          /\ UNCHANGED <<store, writes>>
    /\ UNCHANGED <<api_key, arg, job, channel_id, videos, report, answer, calls,
                   outbox, out>>

\* Notify treating a notification failure like a stage failure: it records
\* status failed and the error.
NotifyRecordsFailure(t) ==
    /\ pc[t] = "notify"
    /\ LET b == EmailBody(Get(report[t]))
       IN  IF b.raised
           THEN /\ Write(t, [status |-> "failed", error |-> Some("AttributeError")])
                /\ UNCHANGED <<calls, outbox>>
           ELSE \/ /\ Called(t, "send_email", TRUE)
                   /\ outbox' = Append(outbox, [to |-> Get(job[t]).email, body |-> b.body])
                   /\ UNCHANGED <<store, writes>>
                \/ /\ Called(t, "send_email", FALSE)
                   /\ Write(t, [status |-> "failed", error |-> Some("Email sending failed")])
                   /\ UNCHANGED outbox
    /\ Goto(t, "done")
    /\ UNCHANGED <<api_key, arg, job, channel_id, videos, report, exc, answer, out>>

\* Notify calling send_email a second time when the first call failed.
NotifyRetries(t) ==
    /\ pc[t] = "notify"
    /\ LET b == EmailBody(Get(report[t]))
       IN  IF b.raised
           THEN UNCHANGED <<calls, outbox>>
           ELSE \/ /\ Called(t, "send_email", TRUE)
                   /\ outbox' = Append(outbox, [to |-> Get(job[t]).email, body |-> b.body])
                \/ /\ calls' = calls \o <<[task |-> t, fn |-> "send_email", ok |-> FALSE],
                                          [task |-> t, fn |-> "send_email", ok |-> TRUE]>>
                   /\ outbox' = Append(outbox, [to |-> Get(job[t]).email, body |-> b.body])
    /\ Goto(t, "done")
    /\ UNCHANGED <<store, api_key, arg, job, channel_id, videos, report, exc,
                   answer, writes>>
    /\ UNCHANGED out

\* lines 55-91: build the body, send_email in a thread; any Exception is
\* logged and dropped.
Notify(t) ==
    /\ pc[t] = "notify"
    /\ LET b == EmailBody(Get(report[t]))
       IN  IF b.raised
           THEN UNCHANGED <<calls, outbox>>
           ELSE \/ /\ Called(t, "send_email", TRUE)
                   /\ outbox' = Append(outbox, [to |-> Get(job[t]).email, body |-> b.body])
                \/ /\ Called(t, "send_email", FALSE)
                   /\ UNCHANGED outbox
    /\ Goto(t, "done")
    /\ UNCHANGED <<store, api_key, arg, job, channel_id, videos, report, exc,
                   answer, writes>>
    /\ UNCHANGED out

process_job(t) ==
    \/ GetJob(t)
    \/ Resolve(t)
    \/ WriteResolved(t)
    \/ FailWrite(t)
    \/ Fetch(t)
    \/ WriteVideos(t)
    \/ Reload(t)
    \/ Analyse(t)
    \/ WriteCompleted(t)
    \/ Notify(t)

ApiKeys == {"", "gemini-key"}

\* One process_job task, started on a job id, with the job pending if it is
\* in the store; the second task is never started.
Init ==
    /\ \E s \in JobServiceArgs : store = [id \in {JobId} |-> NewJob(s)]
    /\ api_key \in ApiKeys
    /\ pc = [t \in Tasks |-> IF t = "run1" THEN "get_job" ELSE "idle"]
    /\ arg \in [Tasks -> {JobId, MissingId}]
    /\ arg["run2"] = JobId
    /\ job = [t \in Tasks |-> None]
    /\ channel_id = [t \in Tasks |-> None]
    /\ videos = [t \in Tasks |-> None]
    /\ report = [t \in Tasks |-> None]
    /\ exc = [t \in Tasks |-> ""]
    /\ answer = [t \in Tasks |-> None]
    /\ calls = <<>>
    /\ writes = <<>>
    /\ outbox = <<>>
    /\ out = None
    /\ plan = OneRun

Next == (\E t \in Tasks : process_job(t)) /\ UNCHANGED plan

Spec == Init /\ [][Next]_vars

-----------------------------------------------------------------------------
(* Callers that do more with the job than one run: a second process_job     *)
(* call on the same job id, or a change of the job's services while the     *)
(* pipeline runs.  The job exists and is pending when the first run starts. *)

InitCaller(p, second, S) ==
    /\ \E s \in S : store = [id \in {JobId} |-> NewJob(s)]
    /\ api_key \in ApiKeys
    /\ pc = [t \in Tasks |-> IF t = "run1" THEN "get_job" ELSE second]
    /\ arg = [t \in Tasks |-> JobId]
    /\ job = [t \in Tasks |-> None]
    /\ channel_id = [t \in Tasks |-> None]
    /\ videos = [t \in Tasks |-> None]
    /\ report = [t \in Tasks |-> None]
    /\ exc = [t \in Tasks |-> ""]
    /\ answer = [t \in Tasks |-> None]
    /\ calls = <<>>
    /\ writes = <<>>
    /\ outbox = <<>>
    /\ out = None
    /\ plan = p

\* process_job(job_id) is called again after the first call has ended.
StartSecond ==
    /\ plan.second = "after"
    /\ pc["run1"] \in {"done", "raised"}
    /\ pc["run2"] = "idle"
    /\ pc' = [pc EXCEPT !["run2"] = "get_job"]
    /\ UNCHANGED <<store, api_key, arg, job, channel_id, videos, report, exc,
                   answer, calls, writes, outbox, out, plan>>

\* The caller sets the job's services after the first run has loaded the Job
\* and before stage 3 loads it again.
SetServices ==
    /\ plan.updates > Len(SelectSeq(writes, LAMBDA w : w.task = "caller"))
    /\ pc["run1"] \in {"resolve", "write_resolved", "fetch", "write_videos",
                       "analyse_get_job"}
    /\ \E s \in FewServices \ {store[JobId].services} :
          store' = [store EXCEPT ![JobId].services = s]
    /\ writes' = Append(writes, [task |-> "caller", keys |-> {"services"},
                                 status |-> store[JobId].status,
                                 from |-> store[JobId].status])
    /\ UNCHANGED <<api_key, pc, arg, job, channel_id, videos, report, exc,
                   answer, calls, outbox, out, plan>>

InitRerun == InitCaller(Rerun, "idle", FewServices)
NextRerun == Next \/ StartSecond
SpecRerun == InitRerun /\ [][NextRerun]_vars

InitUpdate == InitCaller(Updating, "idle", FewServices)
NextUpdate == Next \/ SetServices
SpecUpdate == InitUpdate /\ [][NextUpdate]_vars

\* Two process_job tasks on the same job id, interleaved at their awaits.
InitConcurrent == InitCaller(Concurrent, "get_job", {Some(<<"1">>)})
SpecConcurrent == InitConcurrent /\ [][Next]_vars

\* One run under the event loop, which resumes a task whose awaited call has
\* returned or raised: a step of process_job that can be taken is taken.
InitLive == InitCaller(OneRunFew, "idle", FewServices)
SpecLive == InitLive /\ [][Next]_vars /\ WF_vars(Next)

-----------------------------------------------------------------------------
(* The dispatcher called directly, once, with arguments drawn from bounded *)
(* sets                                                                    *)

\* get_fallback_analysis(videos, services)
CallFallback ==
    /\ out = None
    /\ \E vs \in VideoLists, s \in ServiceArgs :
          out' = Some([fn |-> "get_fallback_analysis", videos |-> vs, services |-> s,
                       key |-> "", outcome |-> NoOutcome, raised |-> FALSE,
                       value |-> get_fallback_analysis(vs, s)])
    /\ UNCHANGED pipeVars

\* await analyse(videos, services=services)
CallAnalyse ==
    /\ out = None
    /\ \E vs \in FetchedLists, s \in JobServiceArgs, key \in ApiKeys :
       \E outcome \in OutcomesFor(key) :
          LET r == analyse(vs, s, key, outcome)
          IN  out' = Some([fn |-> "analyse", videos |-> vs, services |-> s,
                           key |-> key, outcome |-> outcome, raised |-> r.raised,
                           value |-> r.value])
    /\ UNCHANGED pipeVars

\* The reports stage 4 builds a body from: a dict without email_summary or
\* with any email_summary dict, and a report that is no dict.
EmailReports ==
    {[shape |-> "dict", email_summary |-> es, services |-> Some(EmptyDict)] :
        es \in {None} \cup {Some(e) : e \in EmailSummaries}}
    \cup {NonDict("list")}

\* worker.py lines 56-81: the body stage 4 builds for a report
CallEmailBody ==
    /\ out = None
    /\ \E r \in EmailReports :
          out' = Some([fn |-> "email_body", report |-> r,
                       raised |-> EmailBody(r).raised, body |-> EmailBody(r).body])
    /\ UNCHANGED pipeVars

\* ai.py line 60: service_instructions = build_service_instructions(services or [])
CallBuildInstructions ==
    /\ out = None
    /\ \E s \in ServiceArgs :
          out' = Some([fn |-> "build_service_instructions", services |-> s,
                       value |-> build_service_instructions(OrEmpty(s))])
    /\ UNCHANGED pipeVars

\* No pipeline task is started.
InitFun ==
    /\ store = [id \in {JobId} |-> NewJob(None)]
    /\ api_key = ""
    /\ pc = [t \in Tasks |-> "idle"]
    /\ arg = [t \in Tasks |-> JobId]
    /\ job = [t \in Tasks |-> None]
    /\ channel_id = [t \in Tasks |-> None]
    /\ videos = [t \in Tasks |-> None]
    /\ report = [t \in Tasks |-> None]
    /\ exc = [t \in Tasks |-> ""]
    /\ answer = [t \in Tasks |-> None]
    /\ calls = <<>>
    /\ writes = <<>>
    /\ outbox = <<>>
    /\ out = None
    /\ plan = OneRun

NextFun == CallFallback \/ CallAnalyse \/ CallEmailBody \/ CallBuildInstructions

SpecFun == InitFun /\ [][NextFun]_vars

-----------------------------------------------------------------------------
(* Properties of one run of process_job (specification Spec) *)

Run == "run1"
TheJob == store[JobId]

Failed(fn) == \E i \in 1..Len(calls) : calls[i].fn = fn /\ ~calls[i].ok
Succeeded(fn) == \E i \in 1..Len(calls) : calls[i].fn = fn /\ calls[i].ok
WasCalled(fn) == \E i \in 1..Len(calls) : calls[i].fn = fn
Wrote(status) == \E i \in 1..Len(writes) : writes[i].status = status

ForwardSteps ==
    {<<"pending", "channel_resolved">>, <<"channel_resolved", "videos_fetched">>,
     <<"videos_fetched", "completed">>}
NonTerminal == {"pending", "channel_resolved", "videos_fetched"}
Terminal == {"completed", "failed"}

\* C1: in a single run on a pending Job every change of the persisted status
\* is one forward step pending -> channel_resolved -> videos_fetched ->
\* completed or a jump from a non-terminal status to failed, and once the
\* status is completed or failed the run writes nothing more to the Job.
C1_StatusOnlyForward ==
    [][ /\ TheJob'.status /= TheJob.status =>
             \/ <<TheJob.status, TheJob'.status>> \in ForwardSteps
             \/ TheJob.status \in NonTerminal /\ TheJob'.status = "failed"
        /\ TheJob.status \in Terminal => store' = store /\ writes' = writes ]_vars

C1_Witness ==
    /\ pc[Run] = "done"
    /\ TheJob.status = "completed"
    /\ [i \in 1..Len(writes) |-> writes[i].status]
         = <<"channel_resolved", "videos_fetched", "completed">>

\* C2: when channel resolution failed and process_job has returned, the Job
\* is failed with a non-empty error, has no channel id and no videos, and
\* the fetcher, the dispatcher and the notifier were never called.
C2_ResolutionFailure ==
    (pc[Run] = "done" /\ Failed("resolve_channel")) =>
        /\ TheJob.status = "failed"
        /\ IsSome(TheJob.error) /\ Get(TheJob.error) /= ""
        /\ TheJob.channel_id = None
        /\ TheJob.videos = None
        /\ ~WasCalled("fetch_latest_videos")
        /\ ~WasCalled("analyse")
        /\ ~WasCalled("send_email")

C2_Witness == pc[Run] = "done" /\ Failed("resolve_channel") /\ Len(writes) = 1

\* C3: when resolution succeeded, the fetch failed and process_job has
\* returned, the Job is failed with an error recorded, holds the channel id
\* the resolver returned and no videos, and neither the dispatcher nor the
\* notifier was called.
C3_FetchFailure ==
    (pc[Run] = "done" /\ Succeeded("resolve_channel") /\ Failed("fetch_latest_videos")) =>
        /\ TheJob.status = "failed"
        /\ IsSome(TheJob.error)
        /\ IsSome(TheJob.channel_id)
        /\ TheJob.channel_id = channel_id[Run]
        /\ Get(TheJob.channel_id) \in ChannelIds
        /\ TheJob.videos = None
        /\ ~WasCalled("analyse")
        /\ ~WasCalled("send_email")

C3_Witness ==
    pc[Run] = "done" /\ Failed("fetch_latest_videos") /\ TheJob.status = "failed"

\* Stage 4 failed: the run is over after the completed write, and no email
\* went out (send_email raised, or building the body raised).
NotificationFailed ==
    /\ pc[Run] = "done"
    /\ Wrote("completed")
    /\ ~Succeeded("send_email")

-----------------------------------------------------------------------------
(* Properties of the dispatcher called directly (specification SpecFun) *)

Call == Get(out)
CalledFn(fn) == IsSome(out) /\ Call.fn = fn

\* A text the parser accepts: apart from fences and white space it holds one
\* JSON document and nothing else.
HoldsOneDocument(text) ==
    /\ Len(SelectSeq(text, LAMBDA tok : tok.k = "json")) = 1
    /\ \A i \in 1..Len(text) : text[i].k \notin {"prose", "fence_json"}

\* The provider is unavailable (no credential), failed, or answered a text
\* that does not parse.
ProviderFailed(key, outcome) ==
    \/ key = ""
    \/ outcome.kind \in {"raise", "no_text"}
    \/ outcome.kind = "text" /\ ~HoldsOneDocument(outcome.text)

\* C5: analyse never raises; with no credential, a provider error or an
\* unparseable response it returns get_fallback_analysis(videos, services).
C5_AnalyseNeverRaises ==
    CalledFn("analyse") =>
        /\ ~Call.raised
        /\ ProviderFailed(Call.key, Call.outcome) =>
              Call.value = get_fallback_analysis(Call.videos, Call.services)

C5_Witness ==
    /\ CalledFn("analyse")
    /\ Call.services = None
    /\ Call.videos = <<>>
    /\ Call.outcome.kind = "raise"
    /\ ~Call.raised

\* C6: for every list of known capability ids (any subset, also the empty
\* one) and every videos list, the keys of the fallback result's services are
\* exactly the table's names of the requested ids.
C6_FallbackKeysExact ==
    (CalledFn("get_fallback_analysis") /\ Range(OrEmpty(Call.services)) \subseteq KnownIds) =>
        /\ IsSome(Call.value.services)
        /\ DOMAIN Get(Call.value.services)
             = {SERVICE_MAP[id] : id \in Range(OrEmpty(Call.services))}

C6_Witness ==
    /\ CalledFn("get_fallback_analysis")
    /\ Call.services = Some(<<"2", "8", "10">>)
    /\ Len(Call.videos) = MaxVideos
    /\ DOMAIN Get(Call.value.services)
         = {"predictive_ctr_analysis", "fair_use_analysis", "trend_intelligence"}

\* C7: on the provider path and on the fallback path, the keys of the
\* services dict of the result analyse returns are exactly the table's names
\* of the requested ids.
C7_KeysExactOnBothPaths ==
    (CalledFn("analyse") /\ Call.value.shape = "dict" /\ IsSome(Call.value.services)) =>
        DOMAIN Get(Call.value.services) = RequestedNames(OrEmpty(Call.services))

\* The list without the ids the table does not hold.
KnownOnly(services) == SelectSeq(services, LAMBDA id : id \in KnownIds)

\* C10: unknown ids are ignored and are no error: the fallback result for a
\* list has the services keys of the fallback result for the list without
\* its unknown ids.
C10_UnknownIdsIgnored ==
    CalledFn("get_fallback_analysis") =>
        /\ ~Call.raised
        /\ DOMAIN Get(Call.value.services)
             = DOMAIN Get(get_fallback_analysis(
                   Call.videos, Some(KnownOnly(OrEmpty(Call.services)))).services)

C10_Witness ==
    /\ CalledFn("get_fallback_analysis")
    /\ Call.services = Some(<<"1", "99">>)
    /\ DOMAIN Get(Call.value.services) = {"semantic_title_engine"}

-----------------------------------------------------------------------------
(* Properties of the persisted report (specification Spec) *)

\* A complete AnalysisResult: a dict with an email_summary dict and a
\* services dict.
Complete(r) ==
    /\ r.shape = "dict"
    /\ IsSome(r.email_summary) /\ Get(r.email_summary).kind = "dict"
    /\ IsSome(r.services)

\* C8: the persisted ai_report is absent or a complete AnalysisResult.
C8_NoGarbledResultPersisted ==
    TheJob.ai_report = None \/ Complete(Get(TheJob.ai_report))

\* The run is over, both resolution and fetch succeeded, and the provider
\* was unavailable, failed or answered a text that does not parse.
EndedAfterProviderFailure ==
    /\ pc[Run] \in {"done", "raised"}
    /\ Succeeded("resolve_channel")
    /\ Succeeded("fetch_latest_videos")
    /\ IsSome(answer[Run])
    /\ ProviderFailed(api_key, Get(answer[Run]))

\* The Job is completed with the fallback result for (videos, services).
CompletedWithFallback ==
    /\ TheJob.status = "completed"
    /\ TheJob.error = None
    /\ TheJob.ai_report = Some(get_fallback_analysis(Get(TheJob.videos), TheJob.services))
    /\ DOMAIN Get(Get(TheJob.ai_report).services)
         = RequestedNames(OrEmpty(TheJob.services))
    /\ Get(Get(TheJob.ai_report).email_summary).headline
         = "Your channel has untapped growth potential"

-----------------------------------------------------------------------------
(* The order of the external calls and of the store writes *)

CallsOf(t, fn) == {i \in 1..Len(calls) : calls[i].task = t /\ calls[i].fn = fn}
WritesOf(t) == SelectSeq(writes, LAMBDA w : w.task = t)
StatusesOf(t) == [i \in 1..Len(WritesOf(t)) |-> WritesOf(t)[i].status]
StageFailed == Failed("resolve_channel") \/ Failed("fetch_latest_videos")
                 \/ Failed("analyse") \/ Wrote("failed")

\* send_email is called at most once, only with the completed write applied,
\* and never in a run where a stage failed.
SendOnlyAfterCompleted ==
    /\ Cardinality(CallsOf(Run, "send_email")) <= 1
    /\ WasCalled("send_email") => Wrote("completed") /\ TheJob.status = "completed"
    /\ StageFailed => ~WasCalled("send_email")

\* The notification attempts of the run that ended: stage 4 leaves the try
\* block either before the send_email call (the body could not be built) or
\* after one send_email call.
AttemptEndedBeforeSend ==
    /\ EmailBody(Get(report[Run])).raised
    /\ CallsOf(Run, "send_email") = {}
AttemptEndedInSend ==
    /\ ~EmailBody(Get(report[Run])).raised
    /\ Cardinality(CallsOf(Run, "send_email")) = 1

\* C12: send_email is called at most once per run, only after the write of
\* {ai_report, status: completed} was applied, and never in a run where stage
\* 1, 2 or 3 failed; a run where stage 3 succeeded makes exactly one
\* notification attempt.
C12_OneAttemptAfterCompleted ==
    /\ SendOnlyAfterCompleted
    /\ (pc[Run] = "done" /\ Wrote("completed")) =>
          AttemptEndedBeforeSend \/ AttemptEndedInSend

C12_Witness ==
    /\ pc[Run] = "done"
    /\ StatusesOf(Run) = <<"channel_resolved", "videos_fetched", "completed">>
    /\ [i \in 1..Len(calls) |-> calls[i].fn]
         = <<"resolve_channel", "fetch_latest_videos", "analyse", "send_email">>
    /\ Len(outbox) = 1

StartsWith(seq, head) ==
    Len(seq) >= Len(head) /\ SubSeq(seq, 1, Len(head)) = head

StageCalls == <<"resolve_channel", "fetch_latest_videos", "analyse", "send_email">>
FnsOf(t) ==
    LET mine == SelectSeq(calls, LAMBDA c : c.task = t)
    IN  [i \in 1..Len(mine) |-> mine[i].fn]

\* C15: within one run resolve_channel, fetch_latest_videos, analyse and
\* send_email are each called at most once and in that order, and a stage's
\* call is made only after the store write of the stage before it was applied.
C15_CallsInOrder ==
    /\ Len(FnsOf(Run)) <= Len(StageCalls)
    /\ FnsOf(Run) = SubSeq(StageCalls, 1, Len(FnsOf(Run)))
    /\ WasCalled("fetch_latest_videos") =>
          StartsWith(StatusesOf(Run), <<"channel_resolved">>)
    /\ WasCalled("analyse") =>
          StartsWith(StatusesOf(Run), <<"channel_resolved", "videos_fetched">>)
    /\ WasCalled("send_email") =>
          StatusesOf(Run) = <<"channel_resolved", "videos_fetched", "completed">>

C15_Witness ==
    /\ pc[Run] = "write_completed"
    /\ FnsOf(Run) = <<"resolve_channel", "fetch_latest_videos", "analyse">>
    /\ StatusesOf(Run) = <<"channel_resolved", "videos_fetched">>

SuccessStatuses == <<"channel_resolved", "videos_fetched", "completed">>

\* The stages 1-3 the run has entered: stage 1 with the Job found, each later
\* stage once the stage before it has written its success.
StagesExecuted ==
    (IF WasCalled("resolve_channel") THEN 1 ELSE 0)
    + (IF WasCalled("fetch_latest_videos") THEN 1 ELSE 0)
    + (IF StartsWith(StatusesOf(Run), <<"channel_resolved", "videos_fetched">>)
       THEN 1 ELSE 0)

Ended == pc[Run] \in {"done", "raised"}

\* The updates of a run are successes in stage order, then at most one
\* failure: no stage has both, and there are at most three.
OneUpdateAtMostPerStage ==
    /\ Len(WritesOf(Run)) <= Len(SuccessStatuses)
    /\ \E n \in 0..Len(SuccessStatuses) :
          \/ StatusesOf(Run) = SubSeq(SuccessStatuses, 1, n)
          \/ /\ n < Len(SuccessStatuses)
             /\ StatusesOf(Run) = Append(SubSeq(SuccessStatuses, 1, n), "failed")

\* C16 as stated: every stage 1-3 that was executed has applied exactly one
\* update, its success or its failure, never both and never none; stage 4
\* applies none, and a run applies at most three.
C16_ExactlyOneUpdatePerStage ==
    /\ OneUpdateAtMostPerStage
    /\ Ended => Len(WritesOf(Run)) = StagesExecuted

\* C16 amended: a stage never applies both updates and a run at most three;
\* when process_job returns, every executed stage has applied exactly one
\* update; when it raises, the stage it raised in has applied none, because
\* its failure update failed in the store (or the Job could not be loaded).
C16_OneUpdatePerStageUnlessStoreFails ==
    /\ OneUpdateAtMostPerStage
    /\ pc[Run] = "done" => Len(WritesOf(Run)) = StagesExecuted
    /\ pc[Run] = "raised" =>
          /\ ~Wrote("failed")
          /\ Len(WritesOf(Run)) = IF StagesExecuted = 0 THEN 0 ELSE StagesExecuted - 1

\* The resolver succeeded, the stage-1 success update failed in the store,
\* and the failure update was applied.
C16_Witness ==
    /\ pc[Run] = "done"
    /\ Succeeded("resolve_channel")
    /\ exc[Run] = StoreError
    /\ StatusesOf(Run) = <<"failed">>
    /\ StagesExecuted = 1

-----------------------------------------------------------------------------
(* Termination *)

OnExistingJob == arg[Run] = JobId

\* C17 as stated: a run on an existing pending Job that has ended has left the
\* Job completed or failed.
C17_EndsInTerminalStatus ==
    (Ended /\ OnExistingJob) => TheJob.status \in Terminal

\* C17 amended: every run ends, by returning or by raising; a run on an
\* existing Job that returns has left it completed or failed, and a run that
\* raises has left it in the status it had before the stage whose store call
\* failed.
C17_EndsAndTerminalIfReturned ==
    /\ <>Ended
    /\ [](pc[Run] = "done" /\ OnExistingJob => TheJob.status \in Terminal)
    /\ [](pc[Run] = "raised" => TheJob.status \in NonTerminal)

C17_Witness ==
    /\ pc[Run] = "raised"
    /\ Failed("fetch_latest_videos")
    /\ TheJob.status = "channel_resolved"

-----------------------------------------------------------------------------
(* Runs on a Job that is not pending *)

\* C13: once the Job's status is completed or failed, no update_job call is
\* applied to it, also when process_job is called again on its job id.
C13_TerminalJobNeverWritten ==
    \A i \in 1..Len(writes) : writes[i].from \notin Terminal

-----------------------------------------------------------------------------
(* The services stage 3 works with *)

ServicesChanged == \E i \in 1..Len(writes) : writes[i].task = "caller"

\* C14: when the job's services are changed in the store after process_job
\* has started and before stage 3 loads the Job, stage 3 holds the stored
\* services and passes them to analyse: a fallback report is the one for the
\* stored services, not for the services loaded at the start.
C14_AnalyseUsesStoredServices ==
    /\ pc[Run] \in {"analyse", "write_completed", "notify"} =>
          Get(job[Run]).services = TheJob.services
    /\ (IsSome(report[Run]) /\ ProviderFailed(api_key, Get(answer[Run]))) =>
          /\ Get(report[Run])
               = get_fallback_analysis(Get(videos[Run]), TheJob.services)
          /\ DOMAIN Get(Get(report[Run]).services)
               = RequestedNames(OrEmpty(TheJob.services))

C14_Witness ==
    /\ ServicesChanged
    /\ pc[Run] = "done"
    /\ api_key = ""
    /\ TheJob.services = Some(<<"7">>)
    /\ TheJob.status = "completed"
    /\ DOMAIN Get(Get(TheJob.ai_report).services) = {"copyright_protection"}

-----------------------------------------------------------------------------
(* The fields of the Job *)

\* C19: in every state of a single run on a pending Job, the Job has an error
\* exactly when its status is failed.
C19_ErrorIffFailed == IsSome(TheJob.error) <=> TheJob.status = "failed"

C19_Witness ==
    /\ TheJob.status = "failed"
    /\ TheJob.error = Some("No videos found")
    /\ pc[Run] = "done"

\* The statuses a success update of the run leaves the Job in from the
\* given stage on, and failed once that stage's success update was applied.
StatusFrom(n) ==
    \/ \E i \in n..Len(SuccessStatuses) : TheJob.status = SuccessStatuses[i]
    \/ TheJob.status = "failed" /\ Wrote(SuccessStatuses[n])

\* C20: the Job has a channel id exactly when its status is channel_resolved,
\* videos_fetched or completed, or failed after the resolution update was
\* applied; it has videos exactly when its status is videos_fetched or
\* completed, or failed after the fetch update was applied; it never has
\* videos without a channel id.
C20_ChannelAndVideosPresence ==
    /\ IsSome(TheJob.channel_id) <=> StatusFrom(1)
    /\ IsSome(TheJob.videos) <=> StatusFrom(2)
    /\ IsSome(TheJob.videos) => IsSome(TheJob.channel_id)

\* Failed in stage 3, after the fetch update: channel id and videos stay.
C20_Witness ==
    /\ TheJob.status = "failed"
    /\ Wrote("videos_fetched")
    /\ IsSome(TheJob.channel_id)
    /\ IsSome(TheJob.videos)

\* The ai_report field was written, with the status completed.
ReportWritten == IsSome(TheJob.ai_report)

\* A reader finds a result: the field was written and its value is not None
\* (json.loads gives None for the document null).
ReportPresent == ReportWritten /\ Get(TheJob.ai_report).shape /= "null"

\* The field is written by the completed update and by no other.
ReportWrittenIffCompleted == ReportWritten <=> TheJob.status = "completed"

\* C21: in every state of a single run on a pending Job, a reader of the
\* store finds an analysis result exactly when the status is completed.
C21_ResultIffCompleted == ReportPresent <=> TheJob.status = "completed"

StageFields == {"channel_id", "videos", "ai_report"}
CallerFields == {"channel_name", "services", "email"}

\* The caller's fields as the run loaded them (lines 15 and 41).
LoadedJob == Get(job[Run])

\* C22: a failure update names only status and error: after it the Job holds
\* the channel_id and the videos that the stages before it persisted, no
\* ai_report, and the caller's channel_name, services and email as they were.
C22_FailureWriteKeepsFields ==
    Wrote("failed") =>
        /\ writes[Len(writes)].keys = {"status", "error"}
        /\ TheJob.channel_id
             = IF Wrote("channel_resolved") THEN channel_id[Run] ELSE None
        /\ TheJob.videos = IF Wrote("videos_fetched") THEN videos[Run] ELSE None
        /\ TheJob.ai_report = None
        /\ \A f \in CallerFields : TheJob[f] = LoadedJob[f]

\* Failed in stage 3 on a store error, with the two videos fetched and the
\* services requested still in the Job.
C22_Witness ==
    /\ pc[Run] = "done"
    /\ TheJob.status = "failed"
    /\ writes[Len(writes)].keys = {"status", "error"}
    /\ Wrote("videos_fetched")
    /\ TheJob.channel_id = Some("UC123")
    /\ Len(Get(TheJob.videos)) = 2
    /\ TheJob.services = Some(<<"7", "1">>)

\* C23: no update of a run names channel_name, services or email, and the
\* Job holds them throughout as the run loaded them.
C23_CallerFieldsNeverWritten ==
    /\ \A i \in 1..Len(writes) : writes[i].keys \cap CallerFields = {}
    /\ (OnExistingJob /\ IsSome(job[Run])) =>
          \A f \in CallerFields : TheJob[f] = LoadedJob[f]

\* A run that completed a Job created without services.
C23_Witness ==
    /\ pc[Run] = "done"
    /\ StatusesOf(Run) = SuccessStatuses
    /\ TheJob.services = None
    /\ TheJob.channel_name = "AcmeChannel"
    /\ TheJob.email = "creator@example.com"

-----------------------------------------------------------------------------
(* Two runs on one job id *)

\* C18: two process_job tasks on the same pending Job are not kept apart: each
\* task that returns without an error handled has applied its three stage
\* updates, and each task past stage 1 its channel_resolved update, whatever
\* status the other task had written; so the persisted status can move
\* backward or leave a terminal status.
C18_EachRunWritesItsStages ==
    \A t \in Tasks :
        /\ (pc[t] = "done" /\ exc[t] = "") => StatusesOf(t) = SuccessStatuses
        /\ CallsOf(t, "fetch_latest_videos") /= {} =>
              StartsWith(StatusesOf(t), <<"channel_resolved">>)

\* A completed Job was set back to channel_resolved.
C18_Witness ==
    \E i \in 1..Len(writes) :
        /\ writes[i].from = "completed"
        /\ writes[i].status = "channel_resolved"
        /\ TheJob.status = "channel_resolved"

-----------------------------------------------------------------------------
(* The notification body *)

\* The email_summary the body was built from: the report's, or an empty one
\* when the report has none.
GivenSummary ==
    IF Call.report.shape = "dict" /\ IsSome(Call.report.email_summary)
    THEN Get(Call.report.email_summary)
    ELSE Summary("", "", <<>>, "")

InBody(line) == line \in Range(Call.body)
BulletLines == SelectSeq(Call.body, LAMBDA line : \E i \in 1..MaxInsights + 1 :
                                           line = "- insight " \o ToString(i))
Least(a, b) == IF a < b THEN a ELSE b

\* C24: the body starts with the fixed preamble and holds the headline, the
\* teaser, the key-insights section and the call-to-action each exactly when
\* that field of email_summary is non-empty; the bulleted lines are the first
\* min(3, n) of the n key insights, in order; with email_summary absent or
\* empty the body is the preamble alone.
C24_BodyFromEmailSummary ==
    CalledFn("email_body") =>
        LET e == GivenSummary
        IN  /\ ~Call.raised
            /\ Head(Call.body) = Preamble
            /\ InBody("headline") <=> e.headline /= ""
            /\ InBody("teaser") <=> e.teaser /= ""
            /\ InBody("Key insights:") <=> e.key_insights /= <<>>
            /\ InBody("cta") <=> e.cta /= ""
            /\ BulletLines = [i \in 1..Least(3, Len(e.key_insights)) |->
                                "- " \o e.key_insights[i]]
            /\ e = Summary("", "", <<>>, "") => Call.body = <<Preamble>>

\* A full summary with four key insights: the body has three bulleted lines.
C24_Witness ==
    /\ CalledFn("email_body")
    /\ GivenSummary = Summary("headline", "teaser", Insights(4), "cta")
    /\ Call.body = <<Preamble, "headline", "teaser", "Key insights:",
                     "- insight 1", "- insight 2", "- insight 3", "cta">>

-----------------------------------------------------------------------------
(* The instruction block of the prompt *)

\* C25: build_service_instructions returns the instruction texts of the
\* requested ids in the caller's order, unknown ids skipped, and returns the
\* general-overview instruction exactly when the services are absent, empty
\* or all unknown.
C25_InstructionsInCallerOrder ==
    CalledFn("build_service_instructions") =>
        LET known == KnownOnly(OrEmpty(Call.services))
        IN  /\ Call.value = <<GeneralOverview>> <=> known = <<>>
            /\ known /= <<>> =>
                  /\ Head(Call.value) = InstructionsHeader
                  /\ Tail(Call.value) = [i \in 1..Len(known) |-> service_prompts[known[i]]]

\* Requested 7 and then 1: the texts of 7 and of 1, in that order.
C25_Witness ==
    /\ CalledFn("build_service_instructions")
    /\ Call.services = Some(<<"7", "1">>)
    /\ Call.value = <<InstructionsHeader, "4. COPYRIGHT PROTECTION",
                      "1. SEMANTIC TITLE ENGINE">>

-----------------------------------------------------------------------------
(* A job id the store does not hold *)

\* C26: a run on a job id the store does not contain makes no store write
\* and no call of the resolver, the fetcher, the dispatcher or the notifier:
\* it ends at its first step, returning when get_job answers that there is
\* no such Job.
C26_MissingJobNoEffect ==
    arg[Run] \notin DOMAIN store =>
        /\ writes = <<>>
        /\ calls = <<>>
        /\ outbox = <<>>
        /\ TheJob.status = "pending" /\ TheJob.updated_at = None
        /\ pc[Run] \in {"get_job", "done", "raised"}
        /\ job[Run] = None

\* The run on the missing id has returned.
C26_Witness ==
    /\ arg[Run] = MissingId
    /\ pc[Run] = "done"
    /\ calls = <<>> /\ writes = <<>>

====
